---- MODULE Spec2Model ----
(***************************************************************************)
(* Calico voice assistant: the skill loader (load_skills), the MQTT router *)
(* (on_message) of services/calico_skill_service.py and the session engine *)
(* of libraries/base_skill.py, with the two kinds of shipped skill:        *)
(* the two-turn AskMeColorsSkill and the one-shot HelloSkill.              *)
(***************************************************************************)
EXTENDS Integers, Sequences, FiniteSets, TLC

VARIABLES
    pc,                      \* "start" before main() has run load_skills, then "running"
    plugins,                 \* the *.py files of SKILLS_DIR: file number -> descriptor
    LOADED_SKILLS,           \* intent name -> skill instance (the file number it came from)
    UNIQUE_SKILL_INSTANCES,  \* set of skill instances
    skills,                  \* skill instance -> its attributes
    conn,                    \* where main's connect loop and the MQTT client are
    broker,                  \* the MQTT broker, as the client finds it
    subscriptions            \* the topic filters the client is subscribed to

vars == <<pc, plugins, LOADED_SKILLS, UNIQUE_SKILL_INSTANCES, skills, conn, broker,
          subscriptions>>

----------------------------------------------------------------------------
\* Bounds of the model.
MaxSessions == 2
MaxSites == 1
RetryCap == 4
MaxFiles == 3

\* Python's None, for a session id or site id that is not set.
None == 0
SessionIds == 1..MaxSessions
SiteIds == 1..MaxSites

\* A message's "input" when the payload has no such key.
NoInput == "<no input>"
Inputs == {"blue", NoInput}

----------------------------------------------------------------------------
\* libraries/base_skill.py

MAX_RETRIES == 3

RETRY_MESSAGES ==
    << "I'm sorry, I didn't catch that. Could you say it again?",
       "I didn't quite get that. Please repeat yourself.",
       "Could you say that one more time?",
       "I'm having a little trouble understanding. What was that?" >>

\* BaseSkill.__init__: the attributes of a fresh instance. A text is the
\* sequence of the parts an f-string joins. conversation_state is set by
\* AskMeColorsSkill.__init__; a HelloSkill never touches it.
BaseSkill_init(cls, intent_name, answer_intent) ==
    [ cls |-> cls,
      intent_name |-> intent_name,
      answer_intent |-> answer_intent,
      session_id |-> None,
      site_id |-> None,
      retries |-> 0,
      conversation_state |-> "initial" ]

\* An entry of a log: the service's logging, or a skill's self.log.
Entry(level, text) == [level |-> level, text |-> text]

\* The calls of mqtt_client.publish that raise while one message is handled,
\* by their order: the first call, the second (no handler makes more than
\* two), both or none.
PublishFailures == SUBSET {1, 2}

\* A call in progress: the instance, the calls of mqtt_client.publish made so
\* far (out), which of them raised (failed), the warnings and errors written
\* to self.log (its info entries are left out), whether an exception is
\* leaving the call (raised), and the calls of publish that will raise (bus).
Call(self, bus) ==
    [ self |-> self, out |-> << >>, failed |-> {}, log |-> << >>,
      raised |-> FALSE, bus |-> bus ]

_publish_raises(st, topic, payload) ==
    LET n == Len(st.out) + 1
    IN  IF n \in st.bus
        THEN [st EXCEPT !.out = Append(@, [topic |-> topic, payload |-> payload]),
                        !.failed = @ \cup {n},
                        !.raised = TRUE]
        ELSE [st EXCEPT !.out = Append(@, [topic |-> topic, payload |-> payload])]

\* The except branch logs the exception publish raised and returns.
_publish(st, topic, payload) ==
    LET n == Len(st.out) + 1
    IN  IF n \in st.bus
        THEN [st EXCEPT !.out = Append(@, [topic |-> topic, payload |-> payload]),
                        !.failed = @ \cup {n},
                        !.log = Append(@, Entry("ERROR", "Failed to publish to MQTT topic"))]
        ELSE [st EXCEPT !.out = Append(@, [topic |-> topic, payload |-> payload])]

_clear_session(st) ==
    [st EXCEPT !.self.session_id = None,
               !.self.site_id = None,
               !.self.retries = 0]

end_session_unguarded(st, text) ==
    _clear_session(
        _publish(st, "hermes/dialogueManager/endSession",
                 [sessionId |-> st.self.session_id, text |-> text]))

end_session(st, text) ==
    IF st.self.session_id = None
    THEN [st EXCEPT !.log = Append(@, Entry("WARNING",
                                 "Attempted to end a session that was not active."))]
    ELSE _clear_session(
             _publish(st, "hermes/dialogueManager/endSession",
                      [sessionId |-> st.self.session_id, text |-> text]))

speak_no_end(st, text, end_the_session) ==
    IF st.self.site_id = None
    THEN [st EXCEPT !.log = Append(@, Entry("ERROR",
                                 "Cannot use speak() without a valid site_id."))]
    ELSE _publish(st, "hermes/tts/say", [text |-> text, siteId |-> st.self.site_id])

speak_without_site(st, text, end_the_session) ==
    LET said == _publish(st, "hermes/tts/say",
                         [text |-> text, siteId |-> st.self.site_id])
    IN  IF end_the_session /\ said.self.session_id # None
        THEN end_session(said, << >>)
        ELSE said

speak(st, text, end_the_session) ==
    IF st.self.site_id = None
    THEN [st EXCEPT !.log = Append(@, Entry("ERROR",
                                 "Cannot use speak() without a valid site_id."))]
    ELSE LET said == _publish(st, "hermes/tts/say",
                              [text |-> text, siteId |-> st.self.site_id])
         IN  IF end_the_session /\ said.self.session_id # None
             THEN end_session(said, << >>)
             ELSE said

continue_session_unguarded(st, text_to_speak) ==
    _publish(st, "hermes/dialogueManager/continueSession",
             [ sessionId |-> st.self.session_id,
               text |-> text_to_speak,
               intentFilter |-> << st.self.answer_intent >>,
               sendIntentNotRecognized |-> TRUE ])

continue_session_no_flag(st, text_to_speak) ==
    IF st.self.session_id = None
    THEN [st EXCEPT !.log = Append(@, Entry("ERROR",
                                 "Cannot continue a session that is not active."))]
    ELSE _publish(st, "hermes/dialogueManager/continueSession",
                  [ sessionId |-> st.self.session_id,
                    text |-> text_to_speak,
                    intentFilter |-> << st.self.answer_intent >>,
                    sendIntentNotRecognized |-> FALSE ])

continue_session_resets(st, text_to_speak) ==
    IF st.self.session_id = None
    THEN [st EXCEPT !.log = Append(@, Entry("ERROR",
                                 "Cannot continue a session that is not active."))]
    ELSE _publish([st EXCEPT !.self.retries = 0],
                  "hermes/dialogueManager/continueSession",
                  [ sessionId |-> st.self.session_id,
                    text |-> text_to_speak,
                    intentFilter |-> << st.self.answer_intent >>,
                    sendIntentNotRecognized |-> TRUE ])

continue_session(st, text_to_speak) ==
    IF st.self.session_id = None
    THEN [st EXCEPT !.log = Append(@, Entry("ERROR",
                                 "Cannot continue a session that is not active."))]
    ELSE _publish(st, "hermes/dialogueManager/continueSession",
                  [ sessionId |-> st.self.session_id,
                    text |-> text_to_speak,
                    intentFilter |-> << st.self.answer_intent >>,
                    sendIntentNotRecognized |-> TRUE ])

_prepare_for_intent_keeps_session(st, message) ==
    IF st.self.session_id # None
    THEN st
    ELSE [st EXCEPT !.self.session_id = message.sessionId,
                    !.self.site_id = message.siteId]

_prepare_for_intent(st, message) ==
    [st EXCEPT !.self.session_id = message.sessionId,
               !.self.site_id = message.siteId]

ApologyText == << "I'm still not understanding. Let's try again later." >>

handle_intent_not_recognized_reset(st, message, choice) ==
    IF message.sessionId # st.self.session_id
    THEN st
    ELSE LET warned == [st EXCEPT !.log = Append(@, Entry("WARNING",
                                              "Intent not recognized. Retry attempt."))]
         IN  IF st.self.retries + 1 >= MAX_RETRIES
             THEN speak([warned EXCEPT
                           !.self.retries = @ + 1,
                           !.log = Append(@, Entry("ERROR",
                                       "Maximum retry limit reached. Ending conversation."))],
                        ApologyText, TRUE)
             ELSE continue_session([warned EXCEPT !.self.retries = 0],
                                   << RETRY_MESSAGES[choice] >>)

handle_intent_not_recognized_speaks(st, message, choice) ==
    IF message.sessionId # st.self.session_id
    THEN st
    ELSE LET counted == [st EXCEPT !.self.retries = @ + 1]
         IN  IF counted.self.retries >= MAX_RETRIES
             THEN speak(counted, ApologyText, TRUE)
             ELSE speak(counted, << RETRY_MESSAGES[choice] >>, FALSE)

\* choice: the index random.choice draws from RETRY_MESSAGES.
handle_intent_not_recognized(st, message, choice) ==
    IF message.sessionId # st.self.session_id
    THEN st
    ELSE LET counted == [st EXCEPT
                           !.self.retries = @ + 1,
                           !.log = Append(@, Entry("WARNING",
                                       "Intent not recognized. Retry attempt."))]
         IN  IF counted.self.retries >= MAX_RETRIES
             THEN speak([counted EXCEPT
                           !.log = Append(@, Entry("ERROR",
                                       "Maximum retry limit reached. Ending conversation."))],
                        ApologyText, TRUE)
             ELSE continue_session(counted, << RETRY_MESSAGES[choice] >>)

----------------------------------------------------------------------------
\* skills/Ask_Me_Colors.py

QuestionText == << "What is your favorite color?" >>

ColorText(message) ==
    << "Wow! ",
       IF message.input = NoInput THEN "that color" ELSE message.input,
       " is a great color. Mine is orange." >>

AskMeColorsSkill_handle_intent(st, message) ==
    LET prepared == _prepare_for_intent(st, message)
        self == prepared.self
    IN  IF message.intentName = self.intent_name
           /\ self.conversation_state = "initial"
        THEN continue_session(
                 [prepared EXCEPT !.self.conversation_state = "waiting_for_color"],
                 QuestionText)
        ELSE IF message.intentName = self.answer_intent
                /\ self.conversation_state = "waiting_for_color"
             THEN [speak(prepared, ColorText(message), TRUE)
                      EXCEPT !.self.conversation_state = "initial"]
             ELSE prepared

----------------------------------------------------------------------------
\* skills/Hello.py

replies ==
    << "Hi!", "Hello!", "Hey!", "Hello there!", "Hi there!", "Hey there!",
       "Hello, human!" >>

\* choice: the index random.choice draws from replies. speak() raises
\* nothing, so the except branch of the handler is never taken.
HelloSkill_handle_intent(st, message, choice) ==
    speak(_prepare_for_intent(st, message), << replies[choice] >>, TRUE)

----------------------------------------------------------------------------
\* skills/Local_Forecast.py

\* A message's "slots": the key is missing, or a list of well-formed slots
\* naming a day, or a value _get_slot_value cannot walk (null, or a list
\* with an entry that is no object, or a slot whose "value" is null).
NoSlots == "<no slots>"
MalformedSlots == "<malformed slots>"
Slots == {NoSlots, "tomorrow", MalformedSlots}

\* What the handler says: the zip code is not configured, the forecast
\* _format_forecast returns, or a request failed (the except branch).
forecast_texts ==
    << "I can't get the forecast because your zip code isn't set.",
       "<the forecast>",
       "Sorry, I'm having trouble getting the forecast right now." >>

\* choice: which of the three the configuration and the network lead to.
\* _get_slot_value is called before the try block: on slots it cannot walk
\* it raises, after _prepare_for_intent has run. The attribute forecast_day
\* only selects the day of the forecast text and is left out.
LocalForecastSkill_handle_intent(st, message, choice) ==
    LET prepared == _prepare_for_intent(st, message)
    IN  IF message.slots = MalformedSlots
        THEN [prepared EXCEPT !.raised = TRUE]
        ELSE IF choice = 3
             THEN speak([prepared EXCEPT
                           !.log = Append(@, Entry("ERROR", "Error getting forecast"))],
                        << forecast_texts[3] >>, TRUE)
             ELSE speak(prepared, << forecast_texts[choice] >>, TRUE)

----------------------------------------------------------------------------
\* The method a call of skill.handle_intent(payload) resolves to.
handle_intent(st, message, choice) ==
    IF st.self.cls = "AskMeColorsSkill"
    THEN AskMeColorsSkill_handle_intent(st, message)
    ELSE IF st.self.cls = "LocalForecastSkill"
         THEN LocalForecastSkill_handle_intent(st, message, choice)
         ELSE HelloSkill_handle_intent(st, message, choice)

----------------------------------------------------------------------------
\* services/calico_skill_service.py: load_skills

\* What a *.py file of SKILLS_DIR does when load_skills reaches it:
\*   "private"       its name starts with "_": skipped
\*   "syntax_error"  spec.loader.exec_module raises (syntax or import error)
\*   "no_class"      the module has no class of the expected name
\*   "ctor_error"    SkillClass(client) raises
\*   "ok"            SkillClass(client) returns an instance
FailKinds == {"syntax_error", "no_class", "ctor_error"}
FileKinds == {"ok"} \cup FailKinds \cup {"private", "unhashable"}

Plugin(kind, cls, intent_name, answer_intent) ==
    [ kind |-> kind, cls |-> cls,
      intent_name |-> intent_name, answer_intent |-> answer_intent ]

\* The registry under construction: LOADED_SKILLS, UNIQUE_SKILL_INSTANCES,
\* the instances made so far, and whether an exception has left load_skills.
EmptyRegistry ==
    [ loaded |-> << >>, unique |-> {}, skills |-> << >>, raised |-> FALSE ]

load_skill_file_uncaught(reg, f, p) ==
    IF p.kind = "private"
    THEN reg
    ELSE IF p.kind \in FailKinds
         THEN [reg EXCEPT !.raised = TRUE]
         ELSE [ loaded |-> (p.answer_intent :> f) @@ (p.intent_name :> f) @@ reg.loaded,
                unique |-> reg.unique \cup {f},
                skills |-> (f :> BaseSkill_init(p.cls, p.intent_name, p.answer_intent))
                               @@ reg.skills,
                raised |-> reg.raised ]

load_skill_file_first_wins(reg, f, p) ==
    IF p.kind # "ok"
    THEN reg
    ELSE [ loaded |-> reg.loaded @@ (p.intent_name :> f) @@ (p.answer_intent :> f),
           unique |-> reg.unique \cup {f},
           skills |-> (f :> BaseSkill_init(p.cls, p.intent_name, p.answer_intent))
                          @@ reg.skills,
           raised |-> reg.raised ]

load_skill_file_trigger_only(reg, f, p) ==
    IF p.kind # "ok"
    THEN reg
    ELSE [ loaded |-> (p.intent_name :> f) @@ reg.loaded,
           unique |-> reg.unique \cup {f},
           skills |-> (f :> BaseSkill_init(p.cls, p.intent_name, p.answer_intent))
                          @@ reg.skills,
           raised |-> reg.raised ]

\* One iteration of the for loop, for file f with descriptor p. A failing
\* file is logged (warning, or logging.exception in the except branch) and
\* leaves the registry as it was, unless it fails after line 117: the
\* instance of an "unhashable" file (its class defines __eq__ and no
\* __hash__) is assigned to both keys before UNIQUE_SKILL_INSTANCES.add
\* raises TypeError.
load_skill_file(reg, f, p) ==
    IF p.kind = "private"
    THEN reg
    ELSE IF p.kind \in {"syntax_error", "ctor_error"}
         THEN reg
         ELSE IF p.kind = "no_class"
              THEN reg
              ELSE IF p.kind = "unhashable"
              THEN [ loaded |-> (p.answer_intent :> f) @@ (p.intent_name :> f) @@ reg.loaded,
                     unique |-> reg.unique,
                     skills |-> (f :> BaseSkill_init(p.cls, p.intent_name, p.answer_intent))
                                    @@ reg.skills,
                     raised |-> reg.raised ]
              ELSE [ loaded |-> (p.answer_intent :> f) @@ (p.intent_name :> f) @@ reg.loaded,
                     unique |-> reg.unique \cup {f},
                     skills |-> (f :> BaseSkill_init(p.cls, p.intent_name, p.answer_intent))
                                    @@ reg.skills,
                     raised |-> reg.raised ]

\* The for loop over SKILLS_DIR.glob("*.py"), in the order glob yields.
RECURSIVE load_loop(_, _, _, _)
load_loop(dir, order, i, reg) ==
    IF i > Len(order) \/ reg.raised
    THEN reg
    ELSE load_loop(dir, order, i + 1, load_skill_file(reg, order[i], dir[order[i]]))

\* The orders glob may yield the files of a directory in.
GlobOrders(dir) ==
    { o \in [1..Cardinality(DOMAIN dir) -> DOMAIN dir] :
        \A i, j \in DOMAIN o : i # j => o[i] # o[j] }

\* main() calls load_skills(client) once, before the connect loop.
load_skills ==
    /\ pc = "start"
    /\ \E order \in GlobOrders(plugins) :
         LET reg == load_loop(plugins, order, 1, EmptyRegistry)
         IN  /\ LOADED_SKILLS' = reg.loaded
             /\ UNIQUE_SKILL_INSTANCES' = reg.unique
             /\ skills' = reg.skills
             /\ pc' = IF reg.raised THEN "crashed" ELSE "running"
    /\ UNCHANGED <<plugins, conn, broker, subscriptions>>

----------------------------------------------------------------------------
\* services/calico_skill_service.py: on_message

NotRecognizedTopic == "hermes/nlu/intentNotRecognized"
IntentTopic == "hermes/intent/#"

IntentNames == {"Ask_Me_Colors", "Answer_Colors", "Hello", "Unknown_Intent", ""}

\* An inbound message: json says whether json.loads accepts the payload;
\* the other fields are what payload.get finds (None, "" or NoInput when
\* the key is missing).
Message(json, topic, intentName, sessionId, siteId, input, slots) ==
    [ json |-> json, topic |-> topic, intentName |-> intentName,
      sessionId |-> sessionId, siteId |-> siteId, input |-> input,
      slots |-> slots ]

\* The intents of the two-turn and one-shot skills and of no skill. "input"
\* is read by the answer branch of AskMeColorsSkill alone: the messages of
\* the answer intent carry each input, the others none.
PlainIntentMessages ==
    { m \in { Message(TRUE, IntentTopic, n, s, d, i, NoSlots) :
                n \in IntentNames, s \in {None} \cup SessionIds,
                d \in {None} \cup SiteIds, i \in Inputs } :
        m.intentName # "Answer_Colors" => m.input = NoInput }

\* The intent of LocalForecastSkill, with its slots.
ForecastMessages ==
    { Message(TRUE, IntentTopic, "Local_Forecast", s, d, NoInput, sl) :
        s \in {None} \cup SessionIds, d \in {None} \cup SiteIds, sl \in Slots }

IntentMessages == PlainIntentMessages \cup ForecastMessages

NotRecognizedMessages ==
    { Message(TRUE, NotRecognizedTopic, "", s, None, NoInput, NoSlots) :
        s \in {None} \cup SessionIds }

MalformedMessages ==
    { Message(FALSE, t, "", None, None, NoInput, NoSlots) :
        t \in {IntentTopic, NotRecognizedTopic} }

Messages == IntentMessages \cup NotRecognizedMessages \cup MalformedMessages

\* What one call of on_message leaves behind: the skills' attributes, the
\* calls of mqtt_client.publish it made and which of them raised, the
\* service's log, the handlers it invoked, the warnings and errors of the
\* invoked skill's log, and whether an exception is leaving the call.
Result(sk, out, log, inv) ==
    [ skills |-> sk, published |-> out, svcLog |-> log, invoked |-> inv,
      failed |-> {}, skillLog |-> << >>, raised |-> FALSE ]

Invocation(skill, handler) == [skill |-> skill, handler |-> handler]

Handled_takes_session(sk, target, st, log, inv) ==
    [ skills |-> [s \in DOMAIN sk |->
                    IF s = target
                    THEN st.self
                    ELSE IF sk[s].session_id = st.self.session_id
                         THEN [sk[s] EXCEPT !.session_id = None, !.site_id = None,
                                            !.retries = 0]
                         ELSE sk[s]],
      published |-> st.out, svcLog |-> log, invoked |-> inv,
      failed |-> st.failed, skillLog |-> st.log, raised |-> st.raised ]

\* The same after a handler of skill target has run, st being where the
\* call of the handler ended.
Handled(sk, target, st, log, inv) ==
    [ skills |-> [sk EXCEPT ![target] = st.self],
      published |-> st.out, svcLog |-> log, invoked |-> inv,
      failed |-> st.failed, skillLog |-> st.log, raised |-> st.raised ]

\* The skills the scan of UNIQUE_SKILL_INSTANCES can stop at: a set is
\* iterated in no particular order, so any skill holding the session may be
\* the first match. {None} when the scan finds none, and when on_message
\* returns before the scan.
ScanMatches(m, uniq, sk) ==
    IF ~m.json \/ m.topic # NotRecognizedTopic \/ m.sessionId = None
    THEN {None}
    ELSE LET matches == {i \in uniq : sk[i].session_id = m.sessionId}
         IN  IF matches = {} THEN {None} ELSE matches

dispatch_not_recognized_any(m, sk, pick, choice, bus) ==
    IF m.sessionId = None
    THEN Result(sk, << >>, << >>, << >>)
    ELSE LET searching ==
                 Entry("WARNING", "Intent not recognized for session. Searching for active skill.")
             first == IF pick = None /\ DOMAIN sk # {}
                      THEN CHOOSE s \in DOMAIN sk : TRUE
                      ELSE pick
         IN  IF first = None
             THEN Result(sk, << >>,
                         << searching,
                            Entry("INFO", "No active skill conversation found for this session.") >>,
                         << >>)
             ELSE LET st == handle_intent_not_recognized(Call(sk[first], bus), m, choice)
                  IN  Handled(sk, first, st,
                              << searching,
                                 Entry("INFO", "Found active skill for session. Dispatching.") >>,
                              << Invocation(first, "handle_intent_not_recognized") >>)

dispatch_not_recognized_scans_anyway(m, sk, pick, choice, bus) ==
    LET first == IF m.sessionId = None /\ (\E s \in DOMAIN sk : sk[s].session_id = None)
                 THEN CHOOSE s \in DOMAIN sk : sk[s].session_id = None
                 ELSE pick
    IN  IF first = None
        THEN Result(sk, << >>, << >>, << >>)
        ELSE LET st == handle_intent_not_recognized(Call(sk[first], bus), m, choice)
             IN  Handled(sk, first, st, << >>,
                         << Invocation(first, "handle_intent_not_recognized") >>)

\* Lines 158-177: the not-recognized topic. pick is where the scan stops.
dispatch_not_recognized(m, sk, pick, choice, bus) ==
    IF m.sessionId = None
    THEN Result(sk, << >>, << >>, << >>)
    ELSE LET searching ==
                 Entry("WARNING", "Intent not recognized for session. Searching for active skill.")
         IN  IF pick = None
             THEN Result(sk, << >>,
                         << searching,
                            Entry("INFO", "No active skill conversation found for this session.") >>,
                         << >>)
             ELSE LET st == handle_intent_not_recognized(Call(sk[pick], bus), m, choice)
                  IN  Handled(sk, pick, st,
                              << searching,
                                 Entry("INFO", "Found active skill for session. Dispatching.") >>,
                              << Invocation(pick, "handle_intent_not_recognized") >>)

dispatch_intent_without_name_check(m, reg, sk, choice, bus) ==
    IF m.intentName \in DOMAIN reg
    THEN LET target == reg[m.intentName]
             st == handle_intent(Call(sk[target], bus), m, choice)
         IN  Handled(sk, target, st,
                     << Entry("INFO", "Received intent"),
                        Entry("INFO", "Dispatching intent to skill.") >>,
                     << Invocation(target, "handle_intent") >>)
    ELSE Result(sk, << >>,
                << Entry("INFO", "Received intent"),
                   Entry("WARNING", "Received intent but no skill is loaded to handle it.") >>,
                << >>)

dispatch_intent_tts(m, reg, sk, choice, bus) ==
    IF m.intentName = ""
    THEN Result(sk, << >>,
                << Entry("WARNING", "Received message on intent topic without an intent name.") >>,
                << >>)
    ELSE LET received == Entry("INFO", "Received intent")
         IN  IF m.intentName \in DOMAIN reg
             THEN LET target == reg[m.intentName]
                      st == handle_intent(Call(sk[target], bus), m, choice)
                  IN  Handled(sk, target, st,
                              << received, Entry("INFO", "Dispatching intent to skill.") >>,
                              << Invocation(target, "handle_intent") >>)
             ELSE Result(sk,
                         << [ topic |-> "hermes/tts/say",
                              payload |-> [ text |-> << "I don't know how to handle that command." >>,
                                            siteId |-> m.siteId ] ] >>,
                         << received,
                            Entry("WARNING", "Received intent but no skill is loaded to handle it.") >>,
                         << >>)

dispatch_intent_no_receipt(m, reg, sk, choice, bus) ==
    IF m.intentName = ""
    THEN Result(sk, << >>,
                << Entry("WARNING", "Received message on intent topic without an intent name.") >>,
                << >>)
    ELSE IF m.intentName \in DOMAIN reg
         THEN LET target == reg[m.intentName]
                  st == handle_intent(Call(sk[target], bus), m, choice)
              IN  Handled(sk, target, st,
                          << Entry("INFO", "Dispatching intent to skill.") >>,
                          << Invocation(target, "handle_intent") >>)
         ELSE Result(sk, << >>,
                     << Entry("WARNING", "Received intent but no skill is loaded to handle it.") >>,
                     << >>)

\* Lines 180-194: a recognized intent.
dispatch_intent(m, reg, sk, choice, bus) ==
    IF m.intentName = ""
    THEN Result(sk, << >>,
                << Entry("WARNING", "Received message on intent topic without an intent name.") >>,
                << >>)
    ELSE LET received == Entry("INFO", "Received intent")
         IN  IF m.intentName \in DOMAIN reg
             THEN LET target == reg[m.intentName]
                      st == handle_intent(Call(sk[target], bus), m, choice)
                  IN  Handled(sk, target, st,
                              << received, Entry("INFO", "Dispatching intent to skill.") >>,
                              << Invocation(target, "handle_intent") >>)
             ELSE Result(sk, << >>,
                         << received,
                            Entry("WARNING", "Received intent but no skill is loaded to handle it.") >>,
                         << >>)

\* Lines 196-199: the except branches of the callback.
DecodeError == Entry("ERROR", "Could not decode JSON from MQTT message")
UnexpectedError == Entry("ERROR", "An unexpected error occurred in on_message")

route_uncaught(m, reg, sk, pick, choice, bus) ==
    IF ~m.json
    THEN Result(sk, << >>, << DecodeError >>, << >>)
    ELSE IF m.topic = NotRecognizedTopic
         THEN dispatch_not_recognized(m, sk, pick, choice, bus)
         ELSE dispatch_intent(m, reg, sk, choice, bus)

route_decode_uncaught(m, reg, sk, pick, choice, bus) ==
    IF ~m.json
    THEN [Result(sk, << >>, << >>, << >>) EXCEPT !.raised = TRUE]
    ELSE LET r == IF m.topic = NotRecognizedTopic
                  THEN dispatch_not_recognized(m, sk, pick, choice, bus)
                  ELSE dispatch_intent(m, reg, sk, choice, bus)
         IN  IF r.raised
             THEN [r EXCEPT !.raised = FALSE, !.svcLog = Append(@, UnexpectedError)]
             ELSE r

\* The whole callback, for message m: json.loads, the dispatch, and the
\* except branches, which log whatever was raised and return.
route(m, reg, sk, pick, choice, bus) ==
    IF ~m.json
    THEN Result(sk, << >>, << DecodeError >>, << >>)
    ELSE LET r == IF m.topic = NotRecognizedTopic
                  THEN dispatch_not_recognized(m, sk, pick, choice, bus)
                  ELSE dispatch_intent(m, reg, sk, choice, bus)
         IN  IF r.raised
             THEN [r EXCEPT !.raised = FALSE, !.svcLog = Append(@, UnexpectedError)]
             ELSE r

\* The values random.choice can draw while m is handled.
Draws(m, reg, sk, pick) ==
    IF ~m.json THEN {1}
    ELSE IF m.topic = NotRecognizedTopic
         THEN IF pick = None \/ m.sessionId = None
              THEN {1}
              ELSE IF sk[pick].retries + 1 >= MAX_RETRIES THEN {1}
                   ELSE 1..Len(RETRY_MESSAGES)
         ELSE IF m.intentName \in DOMAIN reg /\ m.intentName # ""
              THEN IF sk[reg[m.intentName]].cls = "HelloSkill"
                   THEN 1..Len(replies)
                   ELSE IF sk[reg[m.intentName]].cls = "LocalForecastSkill"
                           /\ m.slots # MalformedSlots
                        THEN 1..Len(forecast_texts)
                        ELSE {1}
              ELSE {1}

\* The retry counter of the skill a not-recognized message reaches stays
\* within the model's bound.
WithinRetryCap(m, pick) ==
    (m.json /\ m.topic = NotRecognizedTopic /\ pick # None)
        => skills[pick].retries < RetryCap

\* What one call of on_message publishes, logs and invokes is the value of
\* route; what it leaves in the program is the skills' attributes.
on_message_unsynchronized ==
    /\ pc = "running"
    /\ \E m \in Messages :
         \E pick \in ScanMatches(m, UNIQUE_SKILL_INSTANCES, skills) :
           /\ WithinRetryCap(m, pick)
           /\ \E choice \in Draws(m, LOADED_SKILLS, skills, pick) :
                skills' \in { route(m, LOADED_SKILLS, skills, pick, choice, bus).skills :
                                bus \in PublishFailures }
    /\ UNCHANGED <<pc, plugins, LOADED_SKILLS, UNIQUE_SKILL_INSTANCES, conn, broker,
                   subscriptions>>

\* loop_forever calls on_message on the thread that called it, main's, for
\* each message the broker delivers while the client is connected, on a
\* topic the client is subscribed to.
on_message ==
    /\ pc = "running"
    /\ conn = "connected"
    /\ \E m \in { d \in Messages : d.topic \in subscriptions } :
         \E pick \in ScanMatches(m, UNIQUE_SKILL_INSTANCES, skills) :
           /\ WithinRetryCap(m, pick)
           /\ \E choice \in Draws(m, LOADED_SKILLS, skills, pick) :
                skills' \in { route(m, LOADED_SKILLS, skills, pick, choice, bus).skills :
                                bus \in PublishFailures }
    /\ UNCHANGED <<pc, plugins, LOADED_SKILLS, UNIQUE_SKILL_INSTANCES, conn, broker,
                   subscriptions>>

----------------------------------------------------------------------------
\* services/calico_skill_service.py: main's connect loop, on_connect and
\* on_disconnect.
\*
\* conn is where the loop is:
\*   "connecting"  at client.connect (on entering the loop and after a sleep)
\*   "connected"   in client.loop_forever, connected and subscribed
\*   "lost"        in client.loop_forever with no connection to the broker
\*   "sleeping"    in time.sleep(5), after an except branch or after
\*                 loop_forever returned
\*   "stopped"     after sys.exit(0)
\* broker is "up" (it accepts the connection), "refusing" (it answers
\* CONNECT with a return code other than 0) or "down" (not reachable).
ConnStates == {"connecting", "connected", "lost", "sleeping", "stopped"}
BrokerStates == {"up", "refusing", "down"}

\* The result codes with which a broker refuses a connection.
ConnackRefused == 1..5

\* on_connect: the topic filters it subscribes to, by the result code rc of
\* the connection (0 is success).
on_connect_subscribes(rc) ==
    IF rc = 0
    THEN {"hermes/intent/#", "hermes/nlu/intentNotRecognized"}
    ELSE {}

on_connect_without_subscribe ==
    /\ pc = "running" /\ conn = "lost" /\ broker = "up"
    /\ conn' = "connected"
    /\ UNCHANGED <<pc, plugins, LOADED_SKILLS, UNIQUE_SKILL_INSTANCES, skills, broker,
                   subscriptions>>

\* client.connect returns, loop_forever runs and calls on_connect with
\* rc = 0, which subscribes to the two topics.
connect ==
    /\ pc = "running" /\ conn = "connecting" /\ broker = "up"
    /\ conn' = "connected"
    /\ subscriptions' = on_connect_subscribes(0)
    /\ UNCHANGED <<pc, plugins, LOADED_SKILLS, UNIQUE_SKILL_INSTANCES, skills, broker>>

\* on_connect with rc # 0 logs an error and subscribes to nothing; the
\* client stays in loop_forever without a session with the broker.
connect_rejected ==
    /\ pc = "running" /\ conn = "connecting" /\ broker = "refusing"
    /\ conn' = "lost"
    /\ \E rc \in ConnackRefused : subscriptions' = on_connect_subscribes(rc)
    /\ UNCHANGED <<pc, plugins, LOADED_SKILLS, UNIQUE_SKILL_INSTANCES, skills, broker>>

connect_refused_gives_up ==
    /\ pc = "running" /\ conn = "connecting" /\ broker = "down"
    /\ conn' = "gave_up"
    /\ UNCHANGED <<pc, plugins, LOADED_SKILLS, UNIQUE_SKILL_INSTANCES, skills, broker,
                   subscriptions>>

\* client.connect raises (ConnectionRefusedError or another exception): the
\* except branch logs it and the loop goes on to the sleep.
connect_refused ==
    /\ pc = "running" /\ conn = "connecting" /\ broker = "down"
    /\ conn' = "sleeping"
    /\ UNCHANGED <<pc, plugins, LOADED_SKILLS, UNIQUE_SKILL_INSTANCES, skills, broker,
                   subscriptions>>

\* time.sleep(5) returns and the while loop starts over.
reconnect_after_sleep ==
    /\ pc = "running" /\ conn = "sleeping"
    /\ conn' = "connecting"
    /\ UNCHANGED <<pc, plugins, LOADED_SKILLS, UNIQUE_SKILL_INSTANCES, skills, broker,
                   subscriptions>>

\* The connection breaks while the client is in loop_forever: on_disconnect
\* logs a warning. The client is made without a persistent session (line
\* 211), so its subscriptions end with the connection.
on_disconnect ==
    /\ pc = "running" /\ conn = "connected" /\ broker # "up"
    /\ conn' = "lost"
    /\ subscriptions' = {}
    /\ UNCHANGED <<pc, plugins, LOADED_SKILLS, UNIQUE_SKILL_INSTANCES, skills, broker>>

on_connect_reloads ==
    /\ pc = "running" /\ conn = "lost" /\ broker = "up"
    /\ conn' = "connected"
    /\ skills' = [s \in DOMAIN skills |->
                    BaseSkill_init(skills[s].cls, skills[s].intent_name,
                                   skills[s].answer_intent)]
    /\ subscriptions' = on_connect_subscribes(0)
    /\ UNCHANGED <<pc, plugins, LOADED_SKILLS, UNIQUE_SKILL_INSTANCES, broker>>

\* Without a connection loop_forever either connects again by itself, and
\* calls on_connect, which subscribes again,
on_connect ==
    /\ pc = "running" /\ conn = "lost" /\ broker = "up"
    /\ conn' = "connected"
    /\ subscriptions' = on_connect_subscribes(0)
    /\ UNCHANGED <<pc, plugins, LOADED_SKILLS, UNIQUE_SKILL_INSTANCES, skills, broker>>

\* or returns or raises, which takes main to the sleep: which of the two
\* the installed paho-mqtt does is not in this repository.
loop_forever_ends ==
    /\ pc = "running" /\ conn = "lost"
    /\ conn' = "sleeping"
    /\ UNCHANGED <<pc, plugins, LOADED_SKILLS, UNIQUE_SKILL_INSTANCES, skills, broker,
                   subscriptions>>

\* KeyboardInterrupt in client.connect or client.loop_forever: sys.exit(0).
KeyboardInterrupt ==
    /\ pc = "running" /\ conn \in {"connecting", "connected", "lost"}
    /\ conn' = "stopped"
    /\ subscriptions' = {}
    /\ UNCHANGED <<pc, plugins, LOADED_SKILLS, UNIQUE_SKILL_INSTANCES, skills, broker>>

\* The broker starts, stops, or starts refusing clients.
broker_changes ==
    /\ broker' \in BrokerStates \ {broker}
    /\ UNCHANGED <<pc, plugins, LOADED_SKILLS, UNIQUE_SKILL_INSTANCES, skills, conn,
                   subscriptions>>

----------------------------------------------------------------------------
\* The shipped skills directory, each file as shipped or broken by an edit.
AskMeColorsFile(kind) == Plugin(kind, "AskMeColorsSkill", "Ask_Me_Colors", "Answer_Colors")
HelloFile(kind) == Plugin(kind, "HelloSkill", "Hello", "")
LocalForecastFile(kind) == Plugin(kind, "LocalForecastSkill", "Local_Forecast", "")

ShippedKinds == {"ok"} \cup FailKinds

ShippedDirs ==
    { << AskMeColorsFile(a), HelloFile(h) >> : a \in ShippedKinds, h \in ShippedKinds }

\* Any skills directory of MaxFiles files, for the loader alone.
LoadIntents == {"T1", "T2", "T3"}
LoadAnswers == {"", "T2"}

\* Directories of MaxFiles files: a file that loads declares any of the
\* names; the names of a file that fails before line 117 are never read.
AnyDirs ==
    [ 1..MaxFiles ->
        { Plugin("ok", "HelloSkill", t, a) : t \in LoadIntents, a \in LoadAnswers }
          \cup { Plugin(k, "HelloSkill", "T1", "") : k \in FileKinds \ {"ok"} } ]

\* The state when main is about to call load_skills: the registry is
\* empty and the client has been made and not connected.
InitWith(dirs) ==
    /\ pc = "start"
    /\ plugins \in dirs
    /\ LOADED_SKILLS = << >>
    /\ UNIQUE_SKILL_INSTANCES = {}
    /\ skills = << >>
    /\ conn = "connecting"
    /\ broker = "up"
    /\ subscriptions = {}

\* The service with a broker that stays up.
Init == InitWith(ShippedDirs)

Next == load_skills \/ connect \/ on_message

Spec == Init /\ [][Next]_vars

InitLoad == InitWith(AnyDirs)

NextLoad == load_skills

SpecLoad == InitLoad /\ [][NextLoad]_vars

\* The two-turn skill next to a skill whose handler can raise.
ForecastDirs ==
    { << AskMeColorsFile(a), LocalForecastFile(f) >> :
        a \in ShippedKinds, f \in ShippedKinds }

InitForecast == InitWith(ForecastDirs)

NextForecast == load_skills \/ connect \/ on_message

\* The two-turn skill with a broker that comes and goes.
ConnectDirs == { << AskMeColorsFile(a) >> : a \in ShippedKinds }

InitConnect ==
    /\ pc = "start"
    /\ plugins \in ConnectDirs
    /\ LOADED_SKILLS = << >>
    /\ UNIQUE_SKILL_INSTANCES = {}
    /\ skills = << >>
    /\ conn = "connecting"
    /\ broker \in BrokerStates
    /\ subscriptions = {}

NextConnect ==
    \/ load_skills
    \/ connect
    \/ connect_rejected
    \/ connect_refused
    \/ reconnect_after_sleep
    \/ on_disconnect
    \/ on_connect
    \/ loop_forever_ends
    \/ KeyboardInterrupt
    \/ broker_changes
    \/ on_message

SpecConnect == InitConnect /\ [][NextConnect]_vars

\* main and loop_forever keep running: load_skills returns, a call of
\* client.connect returns or raises, a sleep ends, and loop_forever without
\* a connection does not leave a broker that is up unconnected for ever.
SpecConnectLive ==
    /\ SpecConnect
    /\ WF_vars(load_skills)
    /\ WF_vars(connect)
    /\ WF_vars(connect_rejected)
    /\ WF_vars(connect_refused)
    /\ WF_vars(reconnect_after_sleep)
    /\ WF_vars(on_connect)

SpecForecast == InitForecast /\ [][NextForecast]_vars

----------------------------------------------------------------------------
\* Vocabulary of the properties.

IsIntent(m) == m.json /\ m.topic # NotRecognizedTopic
IsNotRecognized(m) == m.json /\ m.topic = NotRecognizedTopic

\* The message is a recognized intent the registry has a skill for.
Routed(m) == IsIntent(m) /\ m.intentName # "" /\ m.intentName \in DOMAIN LOADED_SKILLS

\* The message is an intent whose name is no key of the registry.
Unrouted(m) == IsIntent(m) /\ m.intentName \notin DOMAIN LOADED_SKILLS

SayMessage(text, siteId) ==
    [topic |-> "hermes/tts/say", payload |-> [text |-> text, siteId |-> siteId]]

EndSessionMessage(sessionId) ==
    [ topic |-> "hermes/dialogueManager/endSession",
      payload |-> [sessionId |-> sessionId, text |-> << >>] ]

Topics(out) == [i \in DOMAIN out |-> out[i].topic]

MultiTurn(self) == self.answer_intent # ""
Idle(self) == self.conversation_state = "initial"
AwaitingAnswer(self) == self.conversation_state = "waiting_for_color"
NoSession(self) == self.session_id = None /\ self.site_id = None /\ self.retries = 0

\* Holds(m, pick, r) for every call of on_message that the current state
\* allows and in which no call of publish raises: m the message, pick where
\* the not-recognized scan stops, r what the call publishes, logs, invokes
\* and leaves in the skills. (C15 relates the calls in which a call of
\* publish raises to these.)
EveryDispatch(Holds(_, _, _)) ==
    pc = "running" =>
      \A m \in Messages :
        \A pick \in ScanMatches(m, UNIQUE_SKILL_INSTANCES, skills) :
          \A choice \in Draws(m, LOADED_SKILLS, skills, pick) :
            Holds(m, pick, route(m, LOADED_SKILLS, skills, pick, choice, {}))

\* The same for every call that changes an attribute of a skill and in
\* which no call of publish raises, read on the step the call takes.
EveryStep(Holds(_, _, _)) ==
    \A m \in Messages :
      \A pick \in ScanMatches(m, UNIQUE_SKILL_INSTANCES, skills) :
        \A choice \in Draws(m, LOADED_SKILLS, skills, pick) :
          LET r == route(m, LOADED_SKILLS, skills, pick, choice, {})
          IN  (pc = "running" /\ skills' = r.skills) => Holds(m, pick, r)

SomeDispatch(Holds(_, _, _)) ==
    /\ pc = "running"
    /\ \E m \in Messages :
         \E pick \in ScanMatches(m, UNIQUE_SKILL_INSTANCES, skills) :
           \E choice \in Draws(m, LOADED_SKILLS, skills, pick) :
             \E bus \in PublishFailures :
               Holds(m, pick, route(m, LOADED_SKILLS, skills, pick, choice, bus))

----------------------------------------------------------------------------
\* C1. A multi-turn skill that waits for its answer on a session with a
\* site and has counted MAX_RETRIES - 1 misunderstandings: the next
\* not-recognized event of that session publishes exactly the apology and
\* one end-session for the session, and leaves the skill Idle, with its
\* conversation state back to the initial value, no session, no site and
\* retries 0.
C1_Third(m, pick) ==
    /\ IsNotRecognized(m) /\ pick # None
    /\ MultiTurn(skills[pick]) /\ AwaitingAnswer(skills[pick])
    /\ skills[pick].site_id # None
    /\ skills[pick].retries = MAX_RETRIES - 1

C1_Ends(m, pick, r) ==
    C1_Third(m, pick) =>
        /\ r.published = << SayMessage(ApologyText, skills[pick].site_id),
                            EndSessionMessage(m.sessionId) >>
        /\ Idle(r.skills[pick])
        /\ NoSession(r.skills[pick])

C1_ThirdNotRecognizedEndsConversation == [][EveryStep(C1_Ends)]_vars

\* C2. After any sequence of messages, a skill has an active session id
\* exactly when its conversation state is not Idle.
C2_SessionIffNotIdle ==
    pc = "running" =>
      \A s \in DOMAIN skills :
        MultiTurn(skills[s]) =>
          ((skills[s].session_id # None) <=> ~Idle(skills[s]))

\* C3. Once a conversation of a multi-turn skill has ended (a call that
\* published the end-session of its session), a trigger intent for that
\* skill with a session id opens a session again: it publishes exactly one
\* continue-session for the new session and records the session.
C3_Reopens(s) ==
    \A m \in IntentMessages :
      (m.intentName = skills[s].intent_name /\ m.sessionId # None
       /\ Routed(m) /\ LOADED_SKILLS[m.intentName] = s)
      => LET r == route(m, LOADED_SKILLS, skills, None, 1, {})
         IN  /\ Topics(r.published) = << "hermes/dialogueManager/continueSession" >>
             /\ r.published[1].payload.sessionId = m.sessionId
             /\ r.skills[s].session_id = m.sessionId
             /\ AwaitingAnswer(r.skills[s])

C3_CycleEnds(s) ==
    /\ pc = "running"
    /\ MultiTurn(skills[s]) /\ AwaitingAnswer(skills[s])
    /\ skills[s].session_id # None
    /\ \E m \in Messages :
         \E pick \in ScanMatches(m, UNIQUE_SKILL_INSTANCES, skills) :
           \E choice \in Draws(m, LOADED_SKILLS, skills, pick) :
             LET r == route(m, LOADED_SKILLS, skills, pick, choice, {})
             IN  /\ skills' = r.skills
                 /\ r.invoked # << >> /\ r.invoked[1].skill = s
                 /\ \E i \in DOMAIN r.published :
                      r.published[i] = EndSessionMessage(skills[s].session_id)

C3_MachineIsReusable ==
    [][ \A s \in DOMAIN skills : C3_CycleEnds(s) => C3_Reopens(s)' ]_vars

\* C4. retries is 0 right after a multi-turn skill has recorded a new
\* session from an intent message, and right after a call has ended a
\* session of a skill.
C4_Fresh(m, pick, r) ==
    /\ (Routed(m) /\ m.sessionId # None)
        => LET s == LOADED_SKILLS[m.intentName]
           IN  (MultiTurn(skills[s])
                /\ skills[s].session_id # m.sessionId
                /\ r.skills[s].session_id = m.sessionId)
               => r.skills[s].retries = 0
    /\ \A i \in DOMAIN r.published :
         r.published[i].topic = "hermes/dialogueManager/endSession"
           => r.skills[r.invoked[1].skill].retries = 0

C4_RetriesZeroAfterOpenOrClose == [][EveryStep(C4_Fresh)]_vars

\* C5. While a session of a skill stays open, no call of on_message lowers
\* the skill's retries; a not-recognized event that reaches the skill (its
\* session id matches) and leaves the session open raises retries by
\* exactly 1, and one that does not leave it open is the one whose count
\* reached MAX_RETRIES.
C5_Counts(m, pick, r) ==
    /\ \A s \in DOMAIN skills :
         r.skills[s].retries < skills[s].retries
           => r.skills[s].session_id = None /\ r.skills[s].retries = 0
    /\ (IsNotRecognized(m) /\ pick # None)
        => IF r.skills[pick].session_id # None
           THEN r.skills[pick].retries = skills[pick].retries + 1
           ELSE skills[pick].retries + 1 >= MAX_RETRIES

C5_RetriesMonotoneInEpisode == EveryDispatch(C5_Counts)

C5_Witness ==
    /\ pc = "running"
    /\ \E s \in DOMAIN skills :
         /\ MultiTurn(skills[s]) /\ AwaitingAnswer(skills[s])
         /\ skills[s].session_id # None
         /\ skills[s].retries = MAX_RETRIES - 1

\* C6. The trigger intent of an Idle multi-turn skill, carrying a session
\* id, publishes one message and no other: the continue-session of that
\* session, with the skill's answer intent as the only entry of
\* intentFilter and sendIntentNotRecognized true.
C6_Trigger(m) ==
    /\ Routed(m) /\ m.sessionId # None
    /\ LET self == skills[LOADED_SKILLS[m.intentName]]
       IN  MultiTurn(self) /\ Idle(self) /\ m.intentName = self.intent_name

C6_Asks(m, pick, r) ==
    C6_Trigger(m) =>
        /\ Len(r.published) = 1
        /\ r.published[1].topic = "hermes/dialogueManager/continueSession"
        /\ r.published[1].payload.sessionId = m.sessionId
        /\ r.published[1].payload.intentFilter
               = << skills[LOADED_SKILLS[m.intentName]].answer_intent >>
        /\ r.published[1].payload.intentFilter = << "Answer_Colors" >>
        /\ r.published[1].payload.sendIntentNotRecognized = TRUE

C6_TriggerPublishesOneContinue == EveryDispatch(C6_Asks)

C6_Asked(m, pick, r) ==
    /\ C6_Trigger(m) /\ m.intentName = "Ask_Me_Colors"
    /\ Len(r.published) = 1
    /\ AwaitingAnswer(r.skills[LOADED_SKILLS[m.intentName]])

C6_Witness == SomeDispatch(C6_Asked)

\* C7. The answer intent of a skill that awaits the answer on session S,
\* carrying S and a site id, publishes one speak message to that site whose
\* text holds the message's input, then one end-session for S, and leaves
\* the skill Idle with no session, no site and retries 0.
C7_Answer(m) ==
    /\ Routed(m) /\ m.sessionId # None /\ m.siteId # None
    /\ LET self == skills[LOADED_SKILLS[m.intentName]]
       IN  /\ MultiTurn(self) /\ AwaitingAnswer(self)
           /\ m.intentName = self.answer_intent
           /\ self.session_id = m.sessionId

C7_Replies(m, pick, r) ==
    C7_Answer(m) =>
        LET s == LOADED_SKILLS[m.intentName]
        IN  /\ Topics(r.published)
                 = << "hermes/tts/say", "hermes/dialogueManager/endSession" >>
            /\ r.published[1].payload.siteId = m.siteId
            /\ (m.input # NoInput =>
                  \E i \in DOMAIN r.published[1].payload.text :
                    r.published[1].payload.text[i] = m.input)
            /\ r.published[2] = EndSessionMessage(m.sessionId)
            /\ Idle(r.skills[s])
            /\ NoSession(r.skills[s])

C7_AnswerSpeaksAndEnds == EveryDispatch(C7_Replies)

C7_Answered(m, pick, r) ==
    /\ C7_Answer(m) /\ m.input = "blue"
    /\ skills[LOADED_SKILLS[m.intentName]].retries > 0
    /\ Len(r.published) = 2

C7_Witness == SomeDispatch(C7_Answered)

\* C8. An intent whose name is no key of the registry publishes nothing,
\* invokes no skill handler and changes no attribute of any skill.
C8_Dropped(m, pick, r) ==
    Unrouted(m) =>
        /\ r.published = << >>
        /\ r.invoked = << >>
        /\ r.skills = skills

C8_UnknownIntentIsDropped == EveryDispatch(C8_Dropped)

C8_UnknownWhileActive(m, pick, r) ==
    /\ Unrouted(m) /\ m.intentName = "Unknown_Intent"
    /\ \E s \in DOMAIN skills : skills[s].session_id = m.sessionId /\ m.sessionId # None
    /\ r.published = << >>

C8_Witness == SomeDispatch(C8_UnknownWhileActive)

\* C9, as the specification states it: an intent whose name is no key of the
\* registry writes exactly one log entry.
C9_One(m, pick, r) == Unrouted(m) => Len(r.svcLog) = 1

C9_UnknownIntentLogsOnce == EveryDispatch(C9_One)

\* C9, amended: an intent whose name is non-empty and no key of the registry
\* writes exactly two log entries, the info entry that the intent was
\* received and then the warning that no skill is loaded for it; with an
\* empty or missing name it writes one entry, the warning that the message
\* has no intent name.
C9_Two(m, pick, r) ==
    Unrouted(m) =>
        IF m.intentName = ""
        THEN /\ Len(r.svcLog) = 1
             /\ r.svcLog[1].level = "WARNING"
        ELSE /\ Len(r.svcLog) = 2
             /\ r.svcLog[1] = Entry("INFO", "Received intent")
             /\ r.svcLog[2].level = "WARNING"

C9_UnknownIntentLogsTwice == EveryDispatch(C9_Two)

C9_Logged(m, pick, r) ==
    Unrouted(m) /\ m.intentName = "Unknown_Intent" /\ Len(r.svcLog) = 2

C9_Witness == SomeDispatch(C9_Logged)

\* C10. load_skills returns without raising, and every file that loads is
\* then an instance of the unique set and has its trigger intent as a key of
\* the registry, whatever other files fail and in whatever order the files
\* are read; the key holds that very instance when no other loaded file
\* declares the same intent name.
Loads(f) == plugins[f].kind = "ok"

Declares(f, name) ==
    /\ plugins[f].kind \in {"ok", "unhashable"}
    /\ name \in {plugins[f].intent_name, plugins[f].answer_intent}

C10_LoadIsolatesFailures ==
    pc # "start" =>
        /\ pc = "running"
        /\ \A f \in DOMAIN plugins :
             Loads(f) =>
               LET name == plugins[f].intent_name
               IN  /\ f \in UNIQUE_SKILL_INSTANCES
                   /\ f \in DOMAIN skills
                   /\ skills[f].intent_name = name
                   /\ name \in DOMAIN LOADED_SKILLS
                   /\ Declares(LOADED_SKILLS[name], name)
                   /\ ((\A g \in DOMAIN plugins : Declares(g, name) => g = f)
                         => LOADED_SKILLS[name] = f)

C10_Witness ==
    /\ pc = "running"
    /\ \E f, g, h \in DOMAIN plugins :
         /\ plugins[f].kind = "syntax_error"
         /\ Loads(g) /\ Loads(h) /\ g # h
         /\ LOADED_SKILLS[plugins[g].intent_name] = g
         /\ LOADED_SKILLS[plugins[h].intent_name] = h

----------------------------------------------------------------------------
\* C11. A not-recognized event carrying session id S invokes the
\* not-recognized handler of at most one skill, of exactly one when some
\* skill of the unique set holds S, and only of a skill that holds S; no
\* other skill is touched.
C11_Forwards(m, pick, r) ==
    (IsNotRecognized(m) /\ m.sessionId # None) =>
        /\ Len(r.invoked) <= 1
        /\ \A i \in DOMAIN r.invoked :
             /\ r.invoked[i].handler = "handle_intent_not_recognized"
             /\ skills[r.invoked[i].skill].session_id = m.sessionId
        /\ (\E s \in UNIQUE_SKILL_INSTANCES : skills[s].session_id = m.sessionId)
             => Len(r.invoked) = 1
        /\ \A s \in DOMAIN skills :
             (r.invoked = << >> \/ r.invoked[1].skill # s) => r.skills[s] = skills[s]

C11_NotRecognizedGoesToOneHolder == EveryDispatch(C11_Forwards)

C11_OneOfTwo(m, pick, r) ==
    /\ IsNotRecognized(m) /\ m.sessionId # None
    /\ Cardinality({s \in UNIQUE_SKILL_INSTANCES : skills[s].session_id = m.sessionId}) = 2
    /\ Len(r.invoked) = 1

C11_NoHolder(m, pick, r) ==
    /\ IsNotRecognized(m) /\ m.sessionId # None
    /\ \E s \in UNIQUE_SKILL_INSTANCES : skills[s].session_id # None
    /\ r.invoked = << >>

C11_Witness == SomeDispatch(C11_OneOfTwo) /\ SomeDispatch(C11_NoHolder)

\* C12. No two distinct skill instances hold the same session id.
C12_SessionsAreExclusive ==
    \A s, u \in UNIQUE_SKILL_INSTANCES :
      (s # u /\ skills[s].session_id # None)
        => skills[s].session_id # skills[u].session_id

\* C13. An intent whose handler raises (LocalForecastSkill on slots it
\* cannot walk): on_message returns normally after logging the exception,
\* nothing is published, every other skill keeps its attributes, the
\* registry and the unique set still hold the loaded skills, and in every
\* reachable state, those that follow a raising handler included, no message
\* makes on_message raise and an intent of the registry invokes the handler
\* of its skill.
C13_Raises(m) ==
    /\ Routed(m) /\ m.slots = MalformedSlots
    /\ skills[LOADED_SKILLS[m.intentName]].cls = "LocalForecastSkill"

C13_Caught(m, pick, r) ==
    /\ ~r.raised
    /\ Routed(m) =>
         r.invoked = << Invocation(LOADED_SKILLS[m.intentName], "handle_intent") >>
    /\ C13_Raises(m) =>
         /\ r.svcLog[Len(r.svcLog)] = UnexpectedError
         /\ r.published = << >>
         /\ DOMAIN r.skills = DOMAIN skills
         /\ \A s \in DOMAIN skills :
              s # LOADED_SKILLS[m.intentName] => r.skills[s] = skills[s]

C13_HandlerExceptionIsCaught ==
    /\ EveryDispatch(C13_Caught)
    /\ pc = "running" =>
         /\ DOMAIN skills = UNIQUE_SKILL_INSTANCES
         /\ UNIQUE_SKILL_INSTANCES = {f \in DOMAIN plugins : plugins[f].kind = "ok"}
         /\ \A f \in UNIQUE_SKILL_INSTANCES :
              LOADED_SKILLS[plugins[f].intent_name] = f

C13_RaisedMidSession(m, pick, r) ==
    /\ C13_Raises(m)
    /\ r.skills[LOADED_SKILLS[m.intentName]] # skills[LOADED_SKILLS[m.intentName]]
    /\ \E s \in DOMAIN skills :
         s # LOADED_SKILLS[m.intentName] /\ skills[s].session_id # None
    /\ r.svcLog[Len(r.svcLog)] = UnexpectedError

\* The skill whose handler raised a message ago (it holds a session and a
\* site, which only a raising handler leaves set together in a one-shot
\* skill) is reached by its intent again.
C13_DispatchedAfterRaise(m, pick, r) ==
    /\ Routed(m) /\ m.slots = NoSlots
    /\ LET self == skills[LOADED_SKILLS[m.intentName]]
       IN  /\ self.cls = "LocalForecastSkill"
           /\ self.session_id # None /\ self.site_id # None
    /\ Len(r.published) = 2

C13_Witness ==
    SomeDispatch(C13_RaisedMidSession) /\ SomeDispatch(C13_DispatchedAfterRaise)

\* C14. A message whose payload json.loads rejects is dropped: no handler is
\* invoked, nothing is published, no attribute of a skill changes, the
\* callback logs the decoding error and returns without raising.
C14_Dropped(m, pick, r) ==
    ~m.json =>
        /\ r.invoked = << >>
        /\ r.published = << >>
        /\ r.skills = skills
        /\ ~r.raised
        /\ r.svcLog = << DecodeError >>

C14_MalformedPayloadIsDropped == EveryDispatch(C14_Dropped)

C14_DroppedMidSession(m, pick, r) ==
    /\ ~m.json
    /\ \E s \in DOMAIN skills : skills[s].session_id # None /\ skills[s].retries > 0
    /\ r.skills = skills

C14_Witness == SomeDispatch(C14_DroppedMidSession)

\* C15. Whichever of the calls of mqtt_client.publish raise that are made
\* while a message is handled, on_message handles it as when none raises
\* (the handling called ok below): the same calls of
\* publish are made, the skills end with the same attributes (a session whose
\* end-session message failed is cleared all the same), no exception leaves
\* the handler or reaches the except branch of on_message, and the skill's
\* log has one error entry for each call that raised.
PublishErrors(log) ==
    {i \in DOMAIN log : log[i] = Entry("ERROR", "Failed to publish to MQTT topic")}

C15_Same(r, ok) ==
    /\ ~r.raised
    /\ \A i \in DOMAIN r.svcLog : r.svcLog[i] # UnexpectedError
    /\ r.svcLog = ok.svcLog
    /\ r.published = ok.published
    /\ r.invoked = ok.invoked
    /\ r.skills = ok.skills
    /\ Cardinality(PublishErrors(r.skillLog)) = Cardinality(r.failed)
    /\ \A n \in r.failed :
         r.published[n].topic = "hermes/dialogueManager/endSession"
           => NoSession(r.skills[r.invoked[1].skill])

C15_PublishFailureIsLoggedNotRaised ==
    pc = "running" =>
      \A m \in Messages :
        \A pick \in ScanMatches(m, UNIQUE_SKILL_INSTANCES, skills) :
          \A choice \in Draws(m, LOADED_SKILLS, skills, pick) :
            LET ok == route(m, LOADED_SKILLS, skills, pick, choice, {})
            IN  /\ SUBSET DOMAIN ok.published \subseteq PublishFailures
                /\ \A bus \in SUBSET DOMAIN ok.published :
                     LET r == route(m, LOADED_SKILLS, skills, pick, choice, bus)
                     IN  C15_Same(r, ok)

C15_BothFail(m, pick, r) ==
    /\ r.failed = {1, 2}
    /\ Topics(r.published) = << "hermes/tts/say", "hermes/dialogueManager/endSession" >>
    /\ skills[r.invoked[1].skill].session_id # None
    /\ NoSession(r.skills[r.invoked[1].skill])

C15_ContinueFails(m, pick, r) ==
    /\ r.failed = {1}
    /\ Topics(r.published) = << "hermes/dialogueManager/continueSession" >>
    /\ r.skills[r.invoked[1].skill].session_id # None

C15_Witness == SomeDispatch(C15_BothFail) /\ SomeDispatch(C15_ContinueFails)

\* C16. speak on a skill whose site_id is not set makes no call of publish,
\* neither a speak nor an end-session message, and leaves every attribute of
\* the skill as it was, whether or not it was asked to end the session; so
\* the intent of a one-shot skill that arrives without a site id publishes
\* nothing and leaves the session of the message recorded in the skill.
Texts == {ApologyText, QuestionText, << replies[1] >>, << RETRY_MESSAGES[1] >>}

C16_Refused(self) ==
    \A text \in Texts, end_the_session \in BOOLEAN, bus \in PublishFailures :
      LET st == speak(Call(self, bus), text, end_the_session)
      IN  /\ st.out = << >>
          /\ st.self = self
          /\ ~st.raised
          /\ st.log = << Entry("ERROR", "Cannot use speak() without a valid site_id.") >>

C16_Silent(m, pick, r) ==
    (Routed(m) /\ m.siteId = None /\ ~MultiTurn(skills[LOADED_SKILLS[m.intentName]]))
      => LET s == LOADED_SKILLS[m.intentName]
         IN  /\ r.published = << >>
             /\ r.skills[s].session_id = m.sessionId
             /\ r.skills[s].site_id = None
             /\ r.skills[s].retries = skills[s].retries

C16_SpeakWithoutSiteIsRefused ==
    /\ pc = "running" =>
         \A s \in DOMAIN skills : skills[s].site_id = None => C16_Refused(skills[s])
    /\ EveryDispatch(C16_Silent)

C16_SessionWithoutSite(m, pick, r) ==
    /\ Routed(m) /\ m.siteId = None /\ m.sessionId # None
    /\ ~MultiTurn(skills[LOADED_SKILLS[m.intentName]])
    /\ skills[LOADED_SKILLS[m.intentName]].retries > 0
    /\ r.skills[LOADED_SKILLS[m.intentName]].session_id = m.sessionId

C16_Witness == SomeDispatch(C16_SessionWithoutSite)

\* C17. end_session on a skill with no session makes no call of publish,
\* raises nothing, writes one warning and leaves every attribute of the
\* skill as it was, a site id that is still set included.
C17_NoOp(self) ==
    \A text \in {<< >>} \cup Texts, bus \in PublishFailures :
      LET st == end_session(Call(self, bus), text)
      IN  /\ st.out = << >>
          /\ st.self = self
          /\ ~st.raised
          /\ st.log = << Entry("WARNING", "Attempted to end a session that was not active.") >>

C17_EndWithoutSessionIsNoOp ==
    pc = "running" =>
      \A s \in DOMAIN skills : skills[s].session_id = None => C17_NoOp(skills[s])

C17_Witness ==
    /\ pc = "running"
    /\ \E s \in DOMAIN skills :
         /\ skills[s].session_id = None /\ skills[s].site_id # None
         /\ C17_NoOp(skills[s])

\* C18. A call of on_message that ends a session publishes exactly one
\* end-session message, carrying the session id that was active, and leaves
\* the skill with no session, no site, retries 0 and its conversation state
\* Idle.
C18_Ended(m, pick, r) ==
    (\E i \in DOMAIN r.published :
        r.published[i].topic = "hermes/dialogueManager/endSession")
      => LET s == r.invoked[1].skill
             ends == {i \in DOMAIN r.published :
                        r.published[i].topic = "hermes/dialogueManager/endSession"}
         IN  /\ Cardinality(ends) = 1
             /\ \A i \in ends : r.published[i] = EndSessionMessage(m.sessionId)
             /\ NoSession(r.skills[s])
             /\ Idle(r.skills[s])

C18_EndSessionClearsAllFields == [][EveryStep(C18_Ended)]_vars

\* C19. continue_session on a skill with a session changes no attribute of
\* the skill (session_id, site_id, retries, conversation_state) and makes
\* one call of publish: the continue-session message of that session, with
\* the skill's answer intent as the only entry of intentFilter and
\* sendIntentNotRecognized true. So a handler that continues the session
\* leaves the skill with the session and site it had when it called
\* continue_session, and with the retries it had counted by then.
C19_OnlyPublishes(self) ==
    \A text \in Texts, bus \in PublishFailures :
      LET st == continue_session(Call(self, bus), text)
      IN  /\ st.self = self
          /\ ~st.raised
          /\ st.out = << [ topic |-> "hermes/dialogueManager/continueSession",
                           payload |-> [ sessionId |-> self.session_id,
                                         text |-> text,
                                         intentFilter |-> << self.answer_intent >>,
                                         sendIntentNotRecognized |-> TRUE ] ] >>

C19_Kept(m, pick, r) ==
    (r.published # << >>
     /\ r.published[1].topic = "hermes/dialogueManager/continueSession")
      => LET s == r.invoked[1].skill
         IN  /\ Len(r.published) = 1
             /\ r.skills[s].session_id = r.published[1].payload.sessionId
             /\ r.skills[s].session_id # None
             /\ IsNotRecognized(m) =>
                  /\ r.skills[s].site_id = skills[s].site_id
                  /\ r.skills[s].retries = skills[s].retries + 1
             /\ IsIntent(m) =>
                  /\ r.skills[s].site_id = m.siteId
                  /\ r.skills[s].retries = skills[s].retries

C19_ContinueSessionOnlyPublishes ==
    /\ pc = "running" =>
         \A s \in DOMAIN skills :
           skills[s].session_id # None => C19_OnlyPublishes(skills[s])
    /\ EveryDispatch(C19_Kept)

C19_Witness ==
    /\ pc = "running"
    /\ \E s \in DOMAIN skills :
         /\ skills[s].session_id # None /\ skills[s].site_id # None
         /\ skills[s].retries > 0 /\ MultiTurn(skills[s])
         /\ C19_OnlyPublishes(skills[s])

\* C20. After load_skills the registry has no entry under the empty intent
\* name: a skill is registered under its answer intent only when the answer
\* intent is not empty.
C20_NoEmptyIntentName ==
    pc = "running" => "" \notin DOMAIN LOADED_SKILLS

\* C21. When two skills that both load declare the same intent name, as
\* trigger or as answer intent, the registry maps the name to the one glob
\* yielded later, whatever the order, and both instances are in the set of
\* unique instances; the registry the service runs with is the one some
\* order gives.
Position(order, f) == CHOOSE i \in DOMAIN order : order[i] = f

LoadedLast(order, name) ==
    CHOOSE f \in DOMAIN plugins :
      /\ Declares(f, name)
      /\ \A g \in DOMAIN plugins :
           Declares(g, name) => Position(order, g) <= Position(order, f)

C21_LaterWins(order) ==
    LET reg == load_loop(plugins, order, 1, EmptyRegistry)
    IN  \A f, g \in DOMAIN plugins :
          \A name \in LoadIntents \cup LoadAnswers :
            (f # g /\ Loads(f) /\ Loads(g) /\ Declares(f, name) /\ Declares(g, name)) =>
              /\ reg.loaded[name] = LoadedLast(order, name)
              /\ {f, g} \subseteq reg.unique

C21_LaterLoadShadowsEarlier ==
    /\ pc = "start" => \A order \in GlobOrders(plugins) : C21_LaterWins(order)
    /\ pc = "running" =>
         \E order \in GlobOrders(plugins) :
           LET reg == load_loop(plugins, order, 1, EmptyRegistry)
           IN  /\ LOADED_SKILLS = reg.loaded
               /\ UNIQUE_SKILL_INSTANCES = reg.unique

\* Two skills with the same trigger intent are loaded, the registry has one
\* of them under it, and the other is still a unique instance.
C21_Witness ==
    /\ pc = "running"
    /\ \E f, g \in DOMAIN plugins :
         /\ f # g /\ Loads(f) /\ Loads(g)
         /\ plugins[f].intent_name = plugins[g].intent_name
         /\ LOADED_SKILLS[plugins[f].intent_name] = g
         /\ {f, g} \subseteq UNIQUE_SKILL_INSTANCES

\* C28. After loading, a skill with a trigger and a non-empty answer intent
\* that no other loaded skill declares is what the registry has under both
\* names, and it is in the set of unique instances once: no other instance
\* there has its trigger.
C28_Alone(f) ==
    /\ Loads(f)
    /\ plugins[f].answer_intent # ""
    /\ \A g \in DOMAIN plugins \ {f} :
         /\ ~Declares(g, plugins[f].intent_name)
         /\ ~Declares(g, plugins[f].answer_intent)

C28_BothNamesMapToTheSkill ==
    pc = "running" =>
      \A f \in DOMAIN plugins :
        C28_Alone(f) =>
          /\ plugins[f].intent_name \in DOMAIN LOADED_SKILLS
          /\ plugins[f].answer_intent \in DOMAIN LOADED_SKILLS
          /\ LOADED_SKILLS[plugins[f].intent_name] = f
          /\ LOADED_SKILLS[plugins[f].answer_intent] = f
          /\ f \in UNIQUE_SKILL_INSTANCES
          /\ Cardinality({ u \in UNIQUE_SKILL_INSTANCES :
                             skills[u].intent_name = plugins[f].intent_name }) = 1

\* A two-turn skill whose trigger and answer intent differ is loaded next to
\* another skill that declares neither.
C28_Witness ==
    /\ pc = "running"
    /\ \E f, g \in DOMAIN plugins :
         /\ C28_Alone(f) /\ Loads(g) /\ g # f
         /\ plugins[f].intent_name # plugins[f].answer_intent
         /\ LOADED_SKILLS[plugins[f].answer_intent] = f

\* C25. A not-recognized event that carries no session id, or a session
\* id that no skill instance holds, is dropped: no handler is called,
\* nothing is published, nothing is raised, and every attribute of every
\* skill, session, site and retries among them, stays as it was.
C25_Unmatched(m) ==
    /\ IsNotRecognized(m)
    /\ \/ m.sessionId = None
       \/ \A s \in UNIQUE_SKILL_INSTANCES : skills[s].session_id # m.sessionId

C25_Dropped(m, pick, r) ==
    C25_Unmatched(m) =>
        /\ r.invoked = << >>
        /\ r.published = << >>
        /\ r.skills = skills
        /\ ~r.raised

C25_UnmatchedNotRecognizedIsDropped == EveryDispatch(C25_Dropped)

\* While a skill holds a session that an event was not recognized in, an
\* event for another session is dropped, and so is one with no session.
C25_OtherSession(m, pick, r) ==
    /\ C25_Unmatched(m) /\ m.sessionId # None
    /\ \E s \in UNIQUE_SKILL_INSTANCES :
         skills[s].session_id # None /\ skills[s].retries > 0
    /\ r.skills = skills /\ r.published = << >>

C25_NoSessionId(m, pick, r) ==
    /\ C25_Unmatched(m) /\ m.sessionId = None
    /\ \E s \in UNIQUE_SKILL_INSTANCES : skills[s].session_id # None
    /\ \E s \in UNIQUE_SKILL_INSTANCES : skills[s].session_id = None
    /\ r.skills = skills /\ r.published = << >>

C25_Witness == SomeDispatch(C25_OtherSession) /\ SomeDispatch(C25_NoSessionId)

\* C26. A message on an intent topic whose intent name is missing or empty
\* is dropped before the registry is looked at: no handler is called,
\* nothing is published, no skill changes and one warning is logged, also
\* when the registry has a skill under the empty name.
C26_Dropped(m, pick, r) ==
    (IsIntent(m) /\ m.intentName = "") =>
        /\ r.invoked = << >>
        /\ r.published = << >>
        /\ r.skills = skills
        /\ ~r.raised
        /\ r.svcLog =
             << Entry("WARNING", "Received message on intent topic without an intent name.") >>

C26_EmptyIntentNameIsDropped == EveryDispatch(C26_Dropped)

\* The registry has a one-shot skill under "" and the message comes with a
\* session and a site the skill could speak to.
C26_RegisteredUnderEmpty(m, pick, r) ==
    /\ IsIntent(m) /\ m.intentName = ""
    /\ m.sessionId # None /\ m.siteId # None
    /\ "" \in DOMAIN LOADED_SKILLS
    /\ r.invoked = << >>

C26_Witness == SomeDispatch(C26_RegisteredUnderEmpty)

\* C27. When the trigger intent of a two-turn skill arrives for a session
\* S2 while the skill awaits the answer of another session S1, the skill's
\* session_id and site_id become those of the new message and no
\* end-session message is published: nothing is published at all, and the
\* skill goes on awaiting an answer with its retries as they were.
C27_Retriggered(m, s) ==
    /\ Routed(m)
    /\ s = LOADED_SKILLS[m.intentName]
    /\ MultiTurn(skills[s]) /\ AwaitingAnswer(skills[s])
    /\ m.intentName = skills[s].intent_name
    /\ skills[s].session_id # None
    /\ m.sessionId \notin {None, skills[s].session_id}

C27_Overwrites(m, pick, r) ==
    \A s \in DOMAIN skills :
      C27_Retriggered(m, s) =>
        /\ r.skills[s].session_id = m.sessionId
        /\ r.skills[s].site_id = m.siteId
        /\ \A i \in DOMAIN r.published :
             r.published[i].topic # "hermes/dialogueManager/endSession"
        /\ r.published = << >>
        /\ AwaitingAnswer(r.skills[s])
        /\ r.skills[s].retries = skills[s].retries
        /\ r.invoked = << Invocation(s, "handle_intent") >>

C27_RetriggerOverwritesSession == EveryDispatch(C27_Overwrites)

\* The skill has a site for S1 and the trigger for S2 carries none.
C27_LosesSite(m, pick, r) ==
    \E s \in DOMAIN skills :
      /\ C27_Retriggered(m, s)
      /\ skills[s].site_id # None /\ m.siteId = None
      /\ r.skills[s].session_id = m.sessionId
      /\ r.skills[s].site_id = None

C27_Witness == SomeDispatch(C27_LosesSite)

\* C29. A not-recognized event for the session a skill holds that leaves
\* the retry count below MAX_RETRIES publishes one message, a
\* continue-session for that session whose intentFilter is the skill's
\* answer intent and whose text is one of RETRY_MESSAGES, and nothing on the
\* speak or end-session topics; the skill keeps its conversation state,
\* session and site, and its retry count is one more, not reset.
C29_BelowLimit(m, pick) ==
    /\ IsNotRecognized(m) /\ pick # None
    /\ skills[pick].retries + 1 < MAX_RETRIES

C29_Reprompts(m, pick, r) ==
    C29_BelowLimit(m, pick) =>
        /\ Len(r.published) = 1
        /\ r.published[1].topic = "hermes/dialogueManager/continueSession"
        /\ r.published[1].payload.sessionId = m.sessionId
        /\ r.published[1].payload.sessionId = skills[pick].session_id
        /\ r.published[1].payload.intentFilter = << skills[pick].answer_intent >>
        /\ \E c \in DOMAIN RETRY_MESSAGES :
             r.published[1].payload.text = << RETRY_MESSAGES[c] >>
        /\ r.skills = [skills EXCEPT ![pick].retries = @ + 1]
        /\ r.invoked = << Invocation(pick, "handle_intent_not_recognized") >>

C29_RetryBelowLimitReprompts == EveryDispatch(C29_Reprompts)

\* The second event in a row for a two-turn skill that awaits its answer.
C29_SecondRetry(m, pick, r) ==
    /\ C29_BelowLimit(m, pick)
    /\ MultiTurn(skills[pick]) /\ AwaitingAnswer(skills[pick])
    /\ skills[pick].retries = 1
    /\ r.skills[pick].retries = 2
    /\ AwaitingAnswer(r.skills[pick])
    /\ Len(r.published) = 1

C29_Witness == SomeDispatch(C29_SecondRetry)

\* C30. No skill's retry count is ever above MAX_RETRIES, and a
\* not-recognized event that brings a skill's retry count to MAX_RETRIES
\* leaves the skill without a session, also when the session was opened by
\* an intent that carried no site.
C30_EndsAtLimit(m, pick, r) ==
    (IsNotRecognized(m) /\ pick # None /\ skills[pick].retries + 1 = MAX_RETRIES) =>
        r.skills[pick].session_id = None

C30_RetriesBounded ==
    /\ \A s \in DOMAIN skills : skills[s].retries <= MAX_RETRIES
    /\ EveryDispatch(C30_EndsAtLimit)

\* C22. The service never gives up connecting. main is always at one of
\* the places of its loop; a sleep is entered only from a failed
\* client.connect or from loop_forever without a connection, and is left
\* only for the next client.connect; the loop is left only by the
\* KeyboardInterrupt branch; unless that happens main is, again and again,
\* not sleeping; and if from some time on the broker stays up and the
\* service is not stopped, then from some time on the client stays
\* connected.
C22_NeverGivesUp ==
    /\ [](conn \in ConnStates)
    /\ [][conn = "sleeping" => conn' = "connecting"]_conn
    /\ [][conn' = "sleeping" => conn \in {"connecting", "lost"}]_conn
    /\ [][conn' = "stopped" => conn \in {"connecting", "connected", "lost"}]_conn
    /\ []<>(conn # "sleeping")
    /\ (<>[](broker = "up") /\ [](conn # "stopped"))
          => <>[](conn = "connected")

\* main sleeps after the connection of a skill in a session was lost, and
\* the broker is up again.
C22_Witness ==
    /\ pc = "running" /\ conn = "sleeping" /\ broker = "up"
    /\ \E s \in DOMAIN skills : skills[s].session_id # None

\* C23. A step of the connection, a disconnect, a reconnect, a failed
\* attempt or a sleep, changes neither the registry, nor the set of unique
\* instances, nor any attribute of a skill; the registry and the set change
\* only in the one call of load_skills, before the first client.connect.
C23_ConnectionKeepsSkills ==
    /\ [][UNCHANGED <<LOADED_SKILLS, UNIQUE_SKILL_INSTANCES, skills>>]_<<conn, broker>>
    /\ [][pc = "start" /\ conn = "connecting" /\ conn' = conn]_<<LOADED_SKILLS, UNIQUE_SKILL_INSTANCES>>
    /\ [][pc = "running" /\ pc' = pc]_conn

\* The connection is lost while a skill awaits an answer that was not
\* recognized once.
C23_Witness ==
    /\ pc = "running" /\ conn = "lost"
    /\ \E s \in DOMAIN skills :
         /\ skills[s].session_id # None /\ skills[s].site_id # None
         /\ skills[s].retries > 0 /\ AwaitingAnswer(skills[s])

\* C24. Dispatch is serial. A call of on_message calls at most one handler;
\* every change of the skills is the whole effect of one call of on_message
\* for one message, made while the client is connected inside loop_forever,
\* and no step of the connect loop happens in it.
C24_OneHandler(m, pick, r) == Len(r.invoked) <= 1

C24_OneCall ==
    \E m \in Messages :
      \E pick \in ScanMatches(m, UNIQUE_SKILL_INSTANCES, skills) :
        \E choice \in Draws(m, LOADED_SKILLS, skills, pick) :
          \E bus \in PublishFailures :
            skills' = route(m, LOADED_SKILLS, skills, pick, choice, bus).skills

C24_Busy(m, pick, r) ==
    /\ conn = "connected" /\ broker = "down"
    /\ Len(r.invoked) = 1
    /\ r.skills # skills

C31_OneShotTrigger(m, s) ==
    /\ Routed(m)
    /\ s = LOADED_SKILLS[m.intentName]
    /\ ~MultiTurn(skills[s])
    /\ m.intentName = skills[s].intent_name
    /\ m.sessionId # None /\ m.siteId # None

C31_SpeaksAndEnds(m, pick, r) ==
    \A s \in DOMAIN skills :
      C31_OneShotTrigger(m, s) =>
        /\ Len(r.published) = 2
        /\ r.published[1].topic = "hermes/tts/say"
        /\ r.published[1].payload.siteId = m.siteId
        /\ r.published[2] = EndSessionMessage(m.sessionId)
        /\ NoSession(r.skills[s])

C31_OneShotSpeaksAndEnds == EveryDispatch(C31_SpeaksAndEnds)

\* C32. A call of on_message changes the attributes of at most one skill,
\* the one whose handler it called, makes no skill and drops none, and
\* leaves the registry and the set of unique instances as load_skills left
\* them.
C32_OnlyInvoked(m, pick, r) ==
    /\ DOMAIN r.skills = DOMAIN skills
    /\ \A s \in DOMAIN skills :
         r.skills[s] # skills[s] => r.invoked = << r.invoked[1] >> /\ r.invoked[1].skill = s

C32_OneSkillChanges ==
    /\ []EveryDispatch(C32_OnlyInvoked)
    /\ [][pc = "running" =>
            /\ UNCHANGED <<LOADED_SKILLS, UNIQUE_SKILL_INSTANCES>>
            /\ DOMAIN skills' = DOMAIN skills
            /\ Cardinality({s \in DOMAIN skills : skills'[s] # skills[s]}) <= 1]_vars

\* Two skills hold the same session and a message for it changes one.
C32_OneOfTwo(m, pick, r) ==
    \E s, u \in DOMAIN skills :
      /\ s # u
      /\ skills[s].session_id # None
      /\ skills[u].session_id = skills[s].session_id
      /\ r.skills[s] # skills[s]
      /\ r.skills[u] = skills[u]

C32_Witness == SomeDispatch(C32_OneOfTwo)

\* C33. No session is left hanging: an intent with a session and a site
\* that is dispatched to a registered skill publishes at least one
\* continue-session or end-session message for that session, whatever the
\* conversation state of the skill.
C33_Answered(m, pick, r) ==
    (Routed(m) /\ m.sessionId # None /\ m.siteId # None) =>
        \E i \in DOMAIN r.published :
          /\ r.published[i].topic \in { "hermes/dialogueManager/continueSession",
                                        "hermes/dialogueManager/endSession" }
          /\ r.published[i].payload.sessionId = m.sessionId

C33_NoSessionLeftHanging == EveryDispatch(C33_Answered)

\* C34. The answer transition fires only for the session the skill holds:
\* an answer intent for another session that arrives while the skill awaits
\* an answer ends no conversation and leaves the skill's session, site,
\* retries and conversation state as they were.
C34_OtherSession(m, s) ==
    /\ Routed(m)
    /\ s = LOADED_SKILLS[m.intentName]
    /\ MultiTurn(skills[s]) /\ AwaitingAnswer(skills[s])
    /\ m.intentName = skills[s].answer_intent
    /\ skills[s].session_id # None
    /\ m.sessionId # skills[s].session_id

C34_Ignored(m, pick, r) ==
    \A s \in DOMAIN skills :
      C34_OtherSession(m, s) =>
        /\ r.skills[s].session_id = skills[s].session_id
        /\ r.skills[s].site_id = skills[s].site_id
        /\ r.skills[s].retries = skills[s].retries
        /\ AwaitingAnswer(r.skills[s])
        /\ \A i \in DOMAIN r.published :
             r.published[i].topic # "hermes/dialogueManager/endSession"

C34_AnswerOnlyForActiveSession == EveryDispatch(C34_Ignored)

\* C35. Every continue-session message published names a non-empty answer
\* intent in its intentFilter, and a skill whose answer intent is empty
\* publishes no continue-session.
C35_NamesAnAnswer(m, pick, r) ==
    \A i \in DOMAIN r.published :
      r.published[i].topic = "hermes/dialogueManager/continueSession" =>
        /\ r.published[i].payload.intentFilter # << "" >>
        /\ \A j \in DOMAIN r.invoked : MultiTurn(skills[r.invoked[j].skill])

C35_ContinueNamesAnswerIntent == EveryDispatch(C35_NamesAnAnswer)

\* C36. After load_skills every skill instance that is a value of the
\* registry is in the set of unique instances, also when the registration
\* of a file failed part-way.
C36_RegisteredAreUnique ==
    pc = "running" =>
      \A name \in DOMAIN LOADED_SKILLS :
        LOADED_SKILLS[name] \in UNIQUE_SKILL_INSTANCES

\* C37. Whenever the client becomes connected, the first time and every
\* time after a loss alike, on_connect subscribes to the intent wildcard and
\* to the not-recognized topic, so a connected client is subscribed to
\* both; a connection the broker answers with a result code other than 0
\* subscribes to nothing.
C37_SubscribesOnEveryConnect ==
    /\ [](/\ conn = "connected" =>
              subscriptions = {"hermes/intent/#", "hermes/nlu/intentNotRecognized"}
           /\ \A rc \in ConnackRefused : on_connect_subscribes(rc) = {})
    /\ [][conn' = "connected" =>
            subscriptions' = {"hermes/intent/#", "hermes/nlu/intentNotRecognized"}]_conn
    /\ [][(conn = "connecting" /\ conn' = "lost") => subscriptions' = {}]_conn

\* The client lost the connection in the middle of a session and has no
\* subscription; the broker is up again, so loop_forever can reconnect.
C37_Witness ==
    /\ pc = "running" /\ conn = "lost" /\ broker = "up"
    /\ subscriptions = {}
    /\ \E s \in DOMAIN skills : skills[s].session_id # None /\ skills[s].retries > 0

\* C38. A skill with no session has retries 0 in every state reached, and
\* no call of on_message raises the retries of a skill that has no session.
C38_IdleNotCounted(m, pick, r) ==
    \A s \in DOMAIN skills :
      skills[s].session_id = None => r.skills[s].retries <= skills[s].retries

C38_NoSessionNoRetries ==
    /\ \A s \in DOMAIN skills : skills[s].session_id = None => skills[s].retries = 0
    /\ EveryDispatch(C38_IdleNotCounted)

\* C39. continue_session on a skill that has no session publishes nothing,
\* raises nothing, logs one error and changes no attribute of the skill;
\* so the trigger of a two-turn skill that carries no session id publishes
\* nothing and leaves the skill without a session, with the site of the
\* message and the retries it had.
C39_Refuses(self) ==
    \A text \in Texts, bus \in PublishFailures :
      LET st == continue_session(Call(self, bus), text)
      IN  /\ st.out = << >>
          /\ st.self = self
          /\ ~st.raised
          /\ st.log = << Entry("ERROR", "Cannot continue a session that is not active.") >>

C39_TriggerWithoutSession(m, s) ==
    /\ Routed(m) /\ m.sessionId = None
    /\ s = LOADED_SKILLS[m.intentName]
    /\ MultiTurn(skills[s]) /\ Idle(skills[s])
    /\ m.intentName = skills[s].intent_name

C39_NothingPublished(m, pick, r) ==
    \A s \in DOMAIN skills :
      C39_TriggerWithoutSession(m, s) =>
        /\ r.published = << >>
        /\ ~r.raised
        /\ r.skills[s].session_id = None
        /\ r.skills[s].site_id = m.siteId
        /\ r.skills[s].retries = skills[s].retries

C39_ContinueWithoutSessionIsRefused ==
    /\ pc = "running" =>
         \A s \in DOMAIN skills : skills[s].session_id = None => C39_Refuses(skills[s])
    /\ EveryDispatch(C39_NothingPublished)

\* The trigger comes with a site and no session: the skill awaits an answer
\* afterwards and nothing was published.
C39_AsksNobody(m, pick, r) ==
    \E s \in DOMAIN skills :
      /\ C39_TriggerWithoutSession(m, s)
      /\ m.siteId # None
      /\ AwaitingAnswer(r.skills[s])
      /\ r.published = << >>
      /\ r.skillLog # << >>

C39_Witness == SomeDispatch(C39_AsksNobody)

====
